---- MODULE Spec2Model ----
(***************************************************************************)
(* Mission Control WhatsApp bridge: the Baileys variant (bridge file with  *)
(* sock.ev.on('messages.upsert')) and the whatsapp-web.js variant          *)
(* (whatsapp-bridge/index.js, client.on('message')).                       *)
(*                                                                         *)
(* One action is one run-to-completion turn of the Node event loop: an     *)
(* event callback together with the promise continuations it resumes, up   *)
(* to the next await of every async function it touches.                   *)
(***************************************************************************)
EXTENDS Integers, Sequences, FiniteSets, TLC

VARIABLES
    variant,             \* which bridge file runs: "baileys" or "wwebjs"
    AUTHORIZED_NUMBERS,  \* the allow-list read from WA_AUTHORIZED_NUMBERS
    activeSessions,      \* Map sender -> [busy]
    handlers,            \* activations of the async message handler
    calls,               \* runClaude closures, keyed by the handler that called
    sent,                \* per handler, the replies it has handed to the transport
    received             \* messages delivered by the transport so far

\* what is fixed when the process starts
env == <<variant, AUTHORIZED_NUMBERS>>

vars == <<variant, AUTHORIZED_NUMBERS, activeSessions, handlers, calls, sent, received>>

-----------------------------------------------------------------------------
(* Bounds of the model *)

MaxMsgs == 2      \* messages the transport delivers in one run
MaxBatch == 2     \* messages in one messages.upsert event
MaxOut == 1       \* stdout data events of one subprocess
MaxErr == 1       \* stderr data events of one subprocess

MAX_RESPONSE_LENGTH == 4000

-----------------------------------------------------------------------------
(* Text.  A string is a sequence of runs; a run is a piece of text with its *)
(* length in UTF-16 units.  White space and line breaks are runs of their   *)
(* own, so trim and split act on run boundaries.                            *)

Lit(s, k) == [ch |-> s, n |-> k]
SP == Lit(" ", 1)
NL == Lit("\n", 1)

IsSpace(r) == r.ch \in {" ", "\n"}

RECURSIVE TextLength(_)
TextLength(t) == IF t = <<>> THEN 0 ELSE Head(t).n + TextLength(Tail(t))

RECURSIVE TrimStart(_)
TrimStart(t) ==
    IF t = <<>> THEN <<>>
    ELSE IF IsSpace(Head(t)) THEN TrimStart(Tail(t))
    ELSE t

RECURSIVE TrimEnd(_)
TrimEnd(t) ==
    IF t = <<>> THEN <<>>
    ELSE IF IsSpace(t[Len(t)]) THEN TrimEnd(SubSeq(t, 1, Len(t) - 1))
    ELSE t

\* String.prototype.trim
Trim(t) == TrimEnd(TrimStart(t))

\* String.prototype.toLowerCase on the words the model uses
LowerWord(w) ==
    CASE w = "/Help" -> "/help"
      [] w = "/STATUS" -> "/status"
      [] w = "/Tasks" -> "/tasks"
      [] OTHER -> w

ToLowerCase(t) == [i \in 1..Len(t) |-> [t[i] EXCEPT !.ch = LowerWord(t[i].ch)]]

HELP_CMD == <<Lit("/help", 5)>>
STATUS_CMD == <<Lit("/status", 7)>>
TASKS_CMD == <<Lit("/tasks", 6)>>
TASKS_PROMPT ==
    <<Lit("List all tasks from data/tasks.json with their status. Be concise.", 66)>>

-----------------------------------------------------------------------------
(* Inbound messages *)

Senders == {"a", "b", "z"}

\* the values WA_AUTHORIZED_NUMBERS takes in the model: unset, or two numbers
AllowLists == {{}, {"a", "b"}}

\* the literal task-listing prompt stands for free-form text
Bodies ==
    { <<>>,                                   \* no text body (media only)
      <<Lit("/Help", 5)>>,
      <<Lit("/STATUS", 7), SP>>,
      <<Lit("/Tasks", 6)>>,
      TASKS_PROMPT }

\* chat: where the message was posted; user: the number part of the address
Messages ==
    [chat : {"personal"}, user : {"a", "b"}, fromMe : {FALSE}, body : Bodies]
    \cup [chat : {"personal"}, user : {"z"}, fromMe : {FALSE}, body : {TASKS_PROMPT}]
    \cup [chat : {"group", "status"}, user : {"a"}, fromMe : {FALSE},
          body : {TASKS_PROMPT}]
    \cup [chat : {"personal"}, user : {"a"}, fromMe : {TRUE}, body : {TASKS_PROMPT}]

\* the address of a chat; server "user" is a personal chat
\* ('@s.whatsapp.net' for Baileys, '@c.us' for whatsapp-web.js)
Jid(m) ==
    CASE m.chat = "personal" -> [user |-> m.user, server |-> "user"]
      [] m.chat = "group" -> [user |-> m.user, server |-> "g.us"]
      [] m.chat = "status" -> [user |-> "status", server |-> "broadcast"]

\* jid.replace('@s.whatsapp.net', '') and message.from.replace('@c.us', '')
StripUserSuffix(jid) ==
    CASE jid.server = "user" -> jid.user
      [] jid.server = "g.us" -> "a@g.us"
      [] jid.server = "broadcast" -> "status@broadcast"

-----------------------------------------------------------------------------
(* Reply texts *)

WORK_DIR == <<Lit("/srv/mission-control", 20)>>

HelpText ==
    IF variant = "baileys"
    THEN <<Lit("*Mission Control WhatsApp Bridge* ... Run the tests", 293)>>
    ELSE <<Lit("*Mission Control WhatsApp Bridge* ... sent directly to Claude Code.", 368)>>

StatusText(busy) ==
    IF variant = "baileys"
    THEN <<Lit("*Bridge Status* Dir: ", 25)>> \o WORK_DIR \o <<Lit("Busy: ", 7)>>
         \o (IF busy THEN <<Lit("Yes", 3)>> ELSE <<Lit("No", 2)>>)
    ELSE <<Lit("*Bridge Status* Working directory: ", 40)>> \o WORK_DIR
         \o <<Lit("Session active: ", 18)>>
         \o (IF busy THEN <<Lit("Yes (processing...)", 19)>> ELSE <<Lit("Idle", 4)>>)

StillProcessingText ==
    IF variant = "baileys"
    THEN <<Lit("Still processing your previous command...", 43)>>
    ELSE <<Lit("Still processing your previous command. Please wait...", 56)>>

ProcessingText == <<Lit("Processing...", 16)>>

ErrorText(message) == <<Lit("Error: ", 9)>> \o message

PartText(part, chunk) ==
    <<Lit("*Part ", 9), Lit(ToString(part), 1), Lit(":*", 4)>> \o chunk

\* Error messages
TimeoutMessage == <<Lit("Command timed out after 5 minutes", 33)>>
SpawnErrorMessage == <<Lit("Failed to run Claude: ", 22), Lit("spawn claude ENOENT", 19)>>
\* exit codes are written as the text ${code} prints: "0", "1", "-2", "null"
CodeLength(code) == CASE code = "null" -> 4 [] code = "-2" -> 2 [] OTHER -> 1
ExitMessage(code) == <<Lit("Claude exited with code ", 24), Lit(code, CodeLength(code))>>
NoOutput == <<Lit("(No output)", 11)>>
\* the error a failed transport send throws
SendFailure == <<Lit("Connection Closed", 17)>>

-----------------------------------------------------------------------------
(* The mutable program state as one record, so that a handler's synchronous *)
(* part is a function from state to state.                                  *)

St == [activeSessions |-> activeSessions, handlers |-> handlers,
       calls |-> calls, sent |-> sent]

\* one busy flag for all senders
BusyAnyone(S, sender) ==
    \E other \in DOMAIN S.activeSessions : S.activeSessions[other].busy

\* session?.busy
Busy(S, sender) ==
    sender \in DOMAIN S.activeSessions /\ S.activeSessions[sender].busy

\* activeSessions.set(sender, { busy })
SetBusy(S, sender, b) ==
    [S EXCEPT !.activeSessions =
        [s \in (DOMAIN S.activeSessions) \cup {sender} |->
            IF s = sender THEN [busy |-> b] ELSE S.activeSessions[s]]]

\* sock.sendMessage(jid, { text }) / message.reply(text): the call is made
\* here; its promise settles in a later turn (SendDone)
SendMessage(S, h, text) == [S EXCEPT !.sent[h] = Append(@, text)]

NextHandler(S) == Cardinality(DOMAIN S.handlers) + 1

\* a new activation of the handler, suspended at its first await
\*   pc: help, status, wait, ack, claude, part, pace, result, error, done, thrown
\*   gated: the activation set busy = true and is inside try/finally
\*   guarded: the activation is inside a try/catch
\*   queue: the messages of the same upsert batch still to be handled
NewHandler(sender, pc, prompt, gated, queue) ==
    [sender |-> sender, pc |-> pc, prompt |-> prompt, gated |-> gated,
     queue |-> queue, lines |-> <<>>, chunk |-> <<>>, part |-> 1]

AddHandler(S, h, rec) ==
    [S EXCEPT !.handlers = [i \in (DOMAIN S.handlers) \cup {h} |->
                               IF i = h THEN rec ELSE S.handlers[i]],
              !.sent = [i \in (DOMAIN S.sent) \cup {h} |->
                               IF i = h THEN <<>> ELSE S.sent[i]]]

-----------------------------------------------------------------------------
(* runClaude *)

Pending == [state |-> "pending", value |-> <<>>]
Resolved(text) == [state |-> "resolved", value |-> text]
Rejected(message) == [state |-> "rejected", value |-> message]

\* a promise whose outcome the last resolve / reject call decides
SettleLastWins(promise, outcome) == outcome

\* resolve / reject of the promise runClaude returns: the first call decides
Settle(promise, outcome) ==
    IF promise.state = "pending" THEN outcome ELSE promise

\* the synchronous body of runClaude: spawn, listeners, setTimeout
\*   proc: running (spawn returned), failed ('error' emitted), closed
\*   signalled: a SIGTERM has been delivered to the live subprocess
\*   timer: the setTimeout of runClaude; nodeTimer: the timer Node arms for
\*   the spawn option timeout (index.js only)
NewCall ==
    [proc |-> "running", output |-> <<>>, errorOutput |-> <<>>,
     killed |-> FALSE, signalled |-> FALSE, timer |-> "armed",
     nodeTimer |-> IF variant = "wwebjs" THEN "armed" ELSE "off",
     promise |-> Pending]

RunClaude(S, h) ==
    [S EXCEPT !.calls = [i \in (DOMAIN S.calls) \cup {h} |->
                            IF i = h THEN NewCall ELSE S.calls[i]],
              !.handlers[h].pc = "claude"]

\* partial output counts only when something is left of it after trimming
OnCloseTrimmedTest(c, code) ==
    IF variant = "baileys" /\ c.killed THEN c
    ELSE IF code = "0" \/ Trim(c.output) # <<>>
         THEN [c EXCEPT !.promise =
                  Settle(@, Resolved(IF Trim(c.output) # <<>> THEN Trim(c.output)
                                     ELSE NoOutput))]
         ELSE [c EXCEPT !.promise =
                  Settle(@, Rejected(IF Trim(c.errorOutput) # <<>>
                                     THEN Trim(c.errorOutput)
                                     ELSE ExitMessage(code)))]

\* proc.on('close', (code) => ...)
OnClose(c, code) ==
    IF variant = "baileys" /\ c.killed THEN c
    ELSE IF code = "0" \/ TextLength(c.output) > 0
         THEN [c EXCEPT !.promise =
                  Settle(@, Resolved(IF Trim(c.output) # <<>> THEN Trim(c.output)
                                     ELSE NoOutput))]
         ELSE [c EXCEPT !.promise =
                  Settle(@, Rejected(IF Trim(c.errorOutput) # <<>>
                                     THEN Trim(c.errorOutput)
                                     ELSE ExitMessage(code)))]

\* proc.on('error', (err) => ...)
OnError(c) == [c EXCEPT !.promise = Settle(@, Rejected(SpawnErrorMessage))]

\* proc.kill('SIGTERM'): reaches the subprocess only while it is alive
Kill(c) == IF c.proc = "running" THEN [c EXCEPT !.signalled = TRUE] ELSE c

\* the timeout only signals the subprocess and leaves the promise alone
OnTimeoutKillOnly(c) ==
    LET k == IF variant = "baileys" THEN [c EXCEPT !.killed = TRUE] ELSE c
    IN [Kill(k) EXCEPT !.timer = "fired"]

\* the callback of setTimeout(..., CLAUDE_TIMEOUT_MS)
OnTimeout(c) ==
    LET k == IF variant = "baileys" THEN [c EXCEPT !.killed = TRUE] ELSE c
    IN [Kill(k) EXCEPT !.timer = "fired",
                       !.promise = Settle(@, Rejected(TimeoutMessage))]

-----------------------------------------------------------------------------
(* The message handlers: the synchronous part, up to the first await *)

\* handleMessage with '/status' creating the sender's session entry
HandleMessageStatusCreatesEntry(S, jid, text, rest) ==
    LET sender == StripUserSuffix(jid)
        h == NextHandler(S)
        lower == ToLowerCase(text)
    IN  IF lower = HELP_CMD
        THEN SendMessage(AddHandler(S, h, NewHandler(sender, "help", <<>>, FALSE, rest)),
                         h, HelpText)
        ELSE IF lower = STATUS_CMD
        THEN SendMessage(AddHandler(SetBusy(S, sender, Busy(S, sender)), h,
                                    NewHandler(sender, "status", <<>>, FALSE, rest)),
                         h, StatusText(Busy(S, sender)))
        ELSE LET prompt == IF lower = TASKS_CMD THEN TASKS_PROMPT ELSE text
             IN  IF Busy(S, sender)
                 THEN SendMessage(
                          AddHandler(S, h, NewHandler(sender, "wait", <<>>, FALSE, rest)),
                          h, StillProcessingText)
                 ELSE SendMessage(
                          AddHandler(SetBusy(S, sender, TRUE), h,
                                     NewHandler(sender, "ack", prompt, TRUE, rest)),
                          h, ProcessingText)

\* async function handleMessage(sock, jid, text), Baileys variant
HandleMessage(S, jid, text, rest) ==
    LET sender == StripUserSuffix(jid)
        h == NextHandler(S)
        lower == ToLowerCase(text)
    IN  IF lower = HELP_CMD
        THEN SendMessage(AddHandler(S, h, NewHandler(sender, "help", <<>>, FALSE, rest)),
                         h, HelpText)
        ELSE IF lower = STATUS_CMD
        THEN SendMessage(AddHandler(S, h, NewHandler(sender, "status", <<>>, FALSE, rest)),
                         h, StatusText(Busy(S, sender)))
        ELSE LET prompt == IF lower = TASKS_CMD THEN TASKS_PROMPT ELSE text
             IN  IF Busy(S, sender)
                 THEN SendMessage(
                          AddHandler(S, h, NewHandler(sender, "wait", <<>>, FALSE, rest)),
                          h, StillProcessingText)
                 ELSE SendMessage(
                          AddHandler(SetBusy(S, sender, TRUE), h,
                                     NewHandler(sender, "ack", prompt, TRUE, rest)),
                          h, ProcessingText)

\* the filter of the messages.upsert loop: !msg.message || msg.key.fromMe ||
\* remoteJid.endsWith('@g.us') || remoteJid === 'status@broadcast'
SkipNonPersonal(msg) ==
    \/ msg.body = <<>>
    \/ msg.fromMe
    \/ Jid(msg).server = "g.us"
    \/ Jid(msg) = [user |-> "status", server |-> "broadcast"]

\* an empty allow-list lets every sender in
UnauthorizedUnlessEmpty(sender) ==
    Cardinality(AUTHORIZED_NUMBERS) > 0 /\ sender \notin AUTHORIZED_NUMBERS

\* AUTHORIZED_NUMBERS.length === 0 || !AUTHORIZED_NUMBERS.includes(sender)
Unauthorized(sender) ==
    Cardinality(AUTHORIZED_NUMBERS) = 0 \/ sender \notin AUTHORIZED_NUMBERS

\* handleMessage called without await: the loop goes on to the next message
\* while the handler of the previous one is suspended
RECURSIVE UpsertLoopNoAwait(_, _)
UpsertLoopNoAwait(S, messages) ==
    IF messages = <<>> THEN S
    ELSE LET msg == Head(messages)
             sender == StripUserSuffix(Jid(msg))
         IN  IF SkipNonPersonal(msg) THEN UpsertLoopNoAwait(S, Tail(messages))
             ELSE IF Trim(msg.body) = <<>> THEN UpsertLoopNoAwait(S, Tail(messages))
             ELSE IF Unauthorized(sender) THEN UpsertLoopNoAwait(S, Tail(messages))
             ELSE UpsertLoopNoAwait(HandleMessage(S, Jid(msg), Trim(msg.body), <<>>),
                                    Tail(messages))

\* for (const msg of messages) { ...; await handleMessage(...) }: runs until
\* a handleMessage suspends; the rest of the batch waits for it
RECURSIVE UpsertLoop(_, _)
UpsertLoop(S, messages) ==
    IF messages = <<>> THEN S
    ELSE LET msg == Head(messages)
             sender == StripUserSuffix(Jid(msg))
         IN  IF SkipNonPersonal(msg) THEN UpsertLoop(S, Tail(messages))
             ELSE IF Trim(msg.body) = <<>> THEN UpsertLoop(S, Tail(messages))
             ELSE IF Unauthorized(sender) THEN UpsertLoop(S, Tail(messages))
             ELSE HandleMessage(S, Jid(msg), Trim(msg.body), Tail(messages))

\* client.on('message', async (message) => ...), whatsapp-web.js variant
OnMessage(S, message) ==
    LET sender == StripUserSuffix(Jid(message))
        text == Trim(message.body)
        lower == ToLowerCase(text)
        h == NextHandler(S)
    IN  IF Jid(message).server = "g.us" \/ message.chat = "status"
           \/ message.body = <<>>
        THEN S
        ELSE IF Unauthorized(sender) THEN S
        ELSE IF lower = HELP_CMD
        THEN SendMessage(AddHandler(S, h, NewHandler(sender, "help", <<>>, FALSE, <<>>)),
                         h, HelpText)
        ELSE IF lower = STATUS_CMD
        THEN SendMessage(AddHandler(S, h, NewHandler(sender, "status", <<>>, FALSE, <<>>)),
                         h, StatusText(Busy(S, sender)))
        ELSE IF lower = TASKS_CMD
        THEN RunClaude(AddHandler(S, h, NewHandler(sender, "claude", TASKS_PROMPT,
                                                   FALSE, <<>>)), h)
        ELSE IF Busy(S, sender)
        THEN SendMessage(AddHandler(S, h, NewHandler(sender, "wait", <<>>, FALSE, <<>>)),
                         h, StillProcessingText)
        ELSE SendMessage(
                 AddHandler(SetBusy(S, sender, TRUE), h,
                            NewHandler(sender, "ack", text, TRUE, <<>>)),
                 h, ProcessingText)

-----------------------------------------------------------------------------
(* The message handlers: after an await *)

\* the handler returns (outcome "done") or throws (outcome "thrown"); in the
\* Baileys variant a return resumes the upsert loop, a throw abandons it
Finish(S, h, outcome) ==
    LET S1 == [S EXCEPT !.handlers[h] =
                  [@ EXCEPT !.pc = outcome, !.queue = <<>>, !.lines = <<>>,
                            !.chunk = <<>>, !.part = 1]]
    IN  IF outcome = "done" THEN UpsertLoop(S1, S.handlers[h].queue) ELSE S1

\* the busy flag reset after the try statement instead of in its finally:
\* skipped when the error reply throws
LeaveOnReturnOnly(S, h, outcome) ==
    IF S.handlers[h].gated /\ outcome = "done"
    THEN Finish(SetBusy(S, S.handlers[h].sender, FALSE), h, outcome)
    ELSE Finish(S, h, outcome)

\* control leaves the try statement: finally { activeSessions.set(sender,
\* { busy: false }) } where there is one
Leave(S, h, outcome) ==
    IF S.handlers[h].gated
    THEN Finish(SetBusy(S, S.handlers[h].sender, FALSE), h, outcome)
    ELSE Finish(S, h, outcome)

\* catch (err) { await reply(`Error: ${err.message}`) }
Catch(S, h, message) ==
    SendMessage([S EXCEPT !.handlers[h] =
                    [@ EXCEPT !.pc = "error", !.lines = <<>>, !.chunk = <<>>, !.part = 1]],
                h, ErrorText(message))

-----------------------------------------------------------------------------
(* sendLongMessage *)

\* text.split('\n')
RECURSIVE Split(_)
Split(t) ==
    IF \A i \in 1..Len(t) : t[i] # NL THEN <<t>>
    ELSE LET k == CHOOSE i \in 1..Len(t) : t[i] = NL /\ \A j \in 1..(i - 1) : t[j] # NL
         IN  <<SubSeq(t, 1, k - 1)>> \o Split(SubSeq(t, k + 1, Len(t)))

\* the for loop and the final if, run until the next reply is due:
\*   pc "part": the flush inside the loop, before `line` is appended
\*   pc "result": the reply after the loop; pc "end": nothing left to send
RECURSIVE LongLoop(_, _, _)
LongLoop(lines, chunk, part) ==
    IF lines = <<>>
    THEN IF Trim(chunk) # <<>>
         THEN [pc |-> "result", lines |-> <<>>, chunk |-> chunk, part |-> part,
               text |-> IF part > 1 THEN PartText(part, chunk) ELSE chunk]
         ELSE [pc |-> "end", lines |-> <<>>, chunk |-> chunk, part |-> part,
               text |-> <<>>]
    ELSE LET line == Head(lines)
         IN  IF TextLength(chunk) + TextLength(line) + 1 > MAX_RESPONSE_LENGTH
             THEN [pc |-> "part", lines |-> lines, chunk |-> chunk, part |-> part,
                   text |-> PartText(part, chunk)]
             ELSE LongLoop(Tail(lines), chunk \o line \o <<NL>>, part)

ContinueLong(S, h, lines, chunk, part) ==
    LET r == LongLoop(lines, chunk, part)
    IN  IF r.pc = "end" THEN Leave(S, h, "done")
        ELSE SendMessage([S EXCEPT !.handlers[h] =
                             [@ EXCEPT !.pc = r.pc, !.lines = r.lines,
                                       !.chunk = r.chunk, !.part = r.part]],
                         h, r.text)

\* a text of exactly the threshold length is split as well
SendLongMessageBelowThreshold(S, h, text) ==
    IF TextLength(text) < MAX_RESPONSE_LENGTH
    THEN SendMessage([S EXCEPT !.handlers[h].pc = "result"], h, text)
    ELSE ContinueLong(S, h, Split(text), <<>>, 1)

\* async function sendLongMessage(..., text), up to its first reply
SendLongMessage(S, h, text) ==
    IF TextLength(text) <= MAX_RESPONSE_LENGTH
    THEN SendMessage([S EXCEPT !.handlers[h].pc = "result"], h, text)
    ELSE ContinueLong(S, h, Split(text), <<>>, 1)

\* try/finally without a catch clause: the rejection leaves the handler
AfterClaudeNoCatch(S, h) ==
    LET p == S.calls[h].promise
    IN  IF p.state = "resolved" THEN SendLongMessage(S, h, p.value)
        ELSE Leave(S, h, "thrown")

\* the handler resumes after `await runClaude(...)`
AfterClaude(S, h) ==
    LET p == S.calls[h].promise
    IN  IF p.state = "resolved" THEN SendLongMessage(S, h, p.value)
        ELSE Catch(S, h, p.value)

\* an event of the subprocess or a timer has run its callback on closure h,
\* leaving it as c; the awaiting handler resumes if that settled the promise
CallEvent(S, h, c) ==
    LET S1 == [S EXCEPT !.calls[h] = c]
    IN  IF S.calls[h].promise.state = "pending" /\ c.promise.state # "pending"
           /\ S.handlers[h].pc = "claude"
        THEN AfterClaude(S1, h)
        ELSE S1

\* the busy check inside the try statement: the finally block also runs for
\* the message that was answered with the notice
AfterSendReleasesOnWait(S, h, ok) ==
    LET pc == S.handlers[h].pc
    IN  CASE pc \in {"help", "status"} ->
                Finish(S, h, IF ok THEN "done" ELSE "thrown")
          [] pc = "wait" ->
                Finish(SetBusy(S, S.handlers[h].sender, FALSE), h,
                       IF ok THEN "done" ELSE "thrown")
          [] pc = "ack" ->
                IF ok THEN RunClaude(S, h) ELSE Catch(S, h, SendFailure)
          [] pc = "result" ->
                IF ok THEN Leave(S, h, "done") ELSE Catch(S, h, SendFailure)
          [] pc = "part" ->
                IF ok THEN [S EXCEPT !.handlers[h] =
                               [@ EXCEPT !.pc = "pace", !.chunk = <<>>, !.part = @ + 1]]
                ELSE Catch(S, h, SendFailure)
          [] pc = "error" ->
                Leave(S, h, IF ok THEN "done" ELSE "thrown")

\* the subprocess is spawned whether or not the acknowledgment was sent
AfterSendSpawnsAnyway(S, h, ok) ==
    LET pc == S.handlers[h].pc
    IN  CASE pc \in {"help", "status", "wait"} ->
                Finish(S, h, IF ok THEN "done" ELSE "thrown")
          [] pc = "ack" -> RunClaude(S, h)
          [] pc = "result" ->
                IF ok THEN Leave(S, h, "done") ELSE Catch(S, h, SendFailure)
          [] pc = "part" ->
                IF ok THEN [S EXCEPT !.handlers[h] =
                               [@ EXCEPT !.pc = "pace", !.chunk = <<>>, !.part = @ + 1]]
                ELSE Catch(S, h, SendFailure)
          [] pc = "error" ->
                Leave(S, h, IF ok THEN "done" ELSE "thrown")

\* the promise of a transport send settles and the handler resumes
AfterSend(S, h, ok) ==
    LET pc == S.handlers[h].pc
    IN  CASE pc \in {"help", "status", "wait"} ->
                Finish(S, h, IF ok THEN "done" ELSE "thrown")
          [] pc = "ack" ->
                IF ok THEN RunClaude(S, h) ELSE Catch(S, h, SendFailure)
          [] pc = "result" ->
                IF ok THEN Leave(S, h, "done") ELSE Catch(S, h, SendFailure)
          [] pc = "part" ->
                IF ok THEN [S EXCEPT !.handlers[h] =
                               [@ EXCEPT !.pc = "pace", !.chunk = <<>>, !.part = @ + 1]]
                ELSE Catch(S, h, SendFailure)
          [] pc = "error" ->
                Leave(S, h, IF ok THEN "done" ELSE "thrown")

\* the 500 ms pacing delay of sendLongMessage elapses
AfterPace(S, h) ==
    LET hd == S.handlers[h]
    IN  ContinueLong(S, h, Tail(hd.lines), Head(hd.lines) \o <<NL>>, hd.part)

-----------------------------------------------------------------------------
(* Actions: one event-loop turn each *)

Install(S) ==
    /\ activeSessions' = S.activeSessions
    /\ handlers' = S.handlers
    /\ calls' = S.calls
    /\ sent' = S.sent

Batches == UNION {[1..n -> Messages] : n \in 1..MaxBatch}

\* sock.ev.on('messages.upsert', async ({ messages }) => ...)
Upsert(messages) ==
    /\ variant = "baileys"
    /\ received + Len(messages) <= MaxMsgs
    /\ received' = received + Len(messages)
    /\ Install(UpsertLoop(St, messages))
    /\ UNCHANGED env

\* client.on('message', ...): emitted for incoming messages only
Message(message) ==
    /\ variant = "wwebjs"
    /\ ~message.fromMe
    /\ received + 1 <= MaxMsgs
    /\ received' = received + 1
    /\ Install(OnMessage(St, message))
    /\ UNCHANGED env

AwaitingSend(h) == handlers[h].pc \in {"help", "status", "wait", "ack", "result", "part", "error"}

SendDone(h, ok) ==
    /\ AwaitingSend(h)
    /\ Install(AfterSend(St, h, ok))
    /\ UNCHANGED <<env, received>>

PaceDone(h) ==
    /\ handlers[h].pc = "pace"
    /\ Install(AfterPace(St, h))
    /\ UNCHANGED <<env, received>>

StdoutData == {SP, Lit("x", 1)}
StderrData == {SP, Lit("boom", 4)}

\* proc.stdout.on('data', ...).  The buffers are read by the close listener
\* alone, and what it decides after the promise has settled is discarded, so
\* data that arrives after the promise has settled is not recorded
ProcStdout(h, data) ==
    /\ calls[h].proc = "running"
    /\ calls[h].promise.state = "pending"
    /\ Len(calls[h].output) < MaxOut
    /\ Install(CallEvent(St, h, [calls[h] EXCEPT !.output = @ \o <<data>>]))
    /\ UNCHANGED <<env, received>>

\* proc.stderr.on('data', ...)
ProcStderr(h, data) ==
    /\ calls[h].proc = "running"
    /\ calls[h].promise.state = "pending"
    /\ Len(calls[h].errorOutput) < MaxErr
    /\ Install(CallEvent(St, h, [calls[h] EXCEPT !.errorOutput = @ \o <<data>>]))
    /\ UNCHANGED <<env, received>>

\* the subprocess has ended and its streams are closed: 'close' is emitted.
\* By itself it exits with 0 or 1; after a SIGTERM it may also die of the
\* signal (code null); after a failed spawn 'close' follows 'error' (code -2).
\* Nothing reads the buffers after the close listener has run: they are
\* dropped with the streams
ExitCodes(c) ==
    IF c.proc = "failed" THEN {"-2"}
    ELSE {"0", "1"} \cup (IF c.signalled THEN {"null"} ELSE {})

ProcClose(h, code) ==
    /\ calls[h].proc \in {"running", "failed"}
    /\ code \in ExitCodes(calls[h])
    /\ Install(CallEvent(St, h,
           [OnClose([calls[h] EXCEPT !.proc = "closed",
                                     !.nodeTimer = IF @ = "armed" THEN "off" ELSE @],
                    code)
              EXCEPT !.output = <<>>, !.errorOutput = <<>>]))
    /\ UNCHANGED <<env, received>>

\* the executable could not be started: 'error' is emitted
ProcError(h) ==
    /\ calls[h].proc = "running"
    /\ calls[h].output = <<>> /\ calls[h].errorOutput = <<>>
    /\ ~calls[h].signalled
    /\ Install(CallEvent(St, h,
           OnError([calls[h] EXCEPT !.proc = "failed",
                                    !.nodeTimer = IF @ = "armed" THEN "off" ELSE @])))
    /\ UNCHANGED <<env, received>>

\* CLAUDE_TIMEOUT_MS after the call, the timer of runClaude fires
Timeout(h) ==
    /\ calls[h].timer = "armed"
    /\ Install(CallEvent(St, h, OnTimeout(calls[h])))
    /\ UNCHANGED <<env, received>>

\* index.js passes { timeout: CLAUDE_TIMEOUT_MS } to spawn: Node arms a timer
\* of its own that sends SIGTERM to the subprocess if it is still alive
SpawnTimeout(h) ==
    /\ calls[h].nodeTimer = "armed"
    /\ calls[h].proc = "running"
    /\ Install(CallEvent(St, h, [Kill(calls[h]) EXCEPT !.nodeTimer = "fired"]))
    /\ UNCHANGED <<env, received>>

Init ==
    /\ variant \in {"baileys", "wwebjs"}
    /\ AUTHORIZED_NUMBERS \in AllowLists
    /\ activeSessions = <<>>
    /\ handlers = <<>>
    /\ calls = <<>>
    /\ sent = <<>>
    /\ received = 0

Next ==
    \/ \E messages \in Batches : Upsert(messages)
    \/ \E message \in Messages : Message(message)
    \/ \E h \in DOMAIN handlers, ok \in BOOLEAN : SendDone(h, ok)
    \/ \E h \in DOMAIN calls, data \in StdoutData : ProcStdout(h, data)
    \/ \E h \in DOMAIN calls, data \in StderrData : ProcStderr(h, data)
    \/ \E h \in DOMAIN calls, code \in {"0", "1", "null", "-2"} : ProcClose(h, code)
    \/ \E h \in DOMAIN calls : ProcError(h)
    \/ \E h \in DOMAIN calls : Timeout(h)
    \/ \E h \in DOMAIN calls : SpawnTimeout(h)

Spec == Init /\ [][Next]_vars

\* The event loop keeps running: a timer that is due fires, and the promise
\* of a transport send settles one way or the other.  Nothing is assumed of
\* the subprocess, which may never write, fail or close.
Fairness ==
    /\ WF_vars(\E h \in DOMAIN calls : Timeout(h))
    /\ WF_vars(\E h \in DOMAIN handlers, ok \in BOOLEAN : SendDone(h, ok))

FairSpec == Spec /\ Fairness

-----------------------------------------------------------------------------
(* Long results: a forwarded message whose subprocess has written a long    *)
(* text to stdout and is still running.                                     *)

MaxLines == 4

\* the lengths of the lines Claude writes, around the threshold
LineLengths ==
    {0, 1, MAX_RESPONSE_LENGTH \div 2, MAX_RESPONSE_LENGTH - 1, MAX_RESPONSE_LENGTH}

Line(n) == IF n = 0 THEN <<>> ELSE <<Lit("x", n)>>

\* lines.join('\n')
RECURSIVE Join(_)
Join(lines) ==
    IF Len(lines) = 1 THEN Head(lines)
    ELSE Head(lines) \o <<NL>> \o Join(Tail(lines))

LongOutputs ==
    {Join([i \in 1..Len(ns) |-> Line(ns[i])]) :
        ns \in UNION {[1..n -> LineLengths] : n \in 1..MaxLines}}

Empty == [activeSessions |-> <<>>, handlers |-> <<>>, calls |-> <<>>, sent |-> <<>>]

\* sender "a" has sent a prompt, the acknowledgment was delivered and the
\* subprocess was spawned
Spawned ==
    AfterSend(IF variant = "baileys"
              THEN UpsertLoop(Empty, <<[chat |-> "personal", user |-> "a",
                                        fromMe |-> FALSE, body |-> TASKS_PROMPT]>>)
              ELSE OnMessage(Empty, [chat |-> "personal", user |-> "a",
                                     fromMe |-> FALSE, body |-> TASKS_PROMPT]),
              1, TRUE)

LongInit ==
    /\ variant \in {"baileys", "wwebjs"}
    /\ AUTHORIZED_NUMBERS = {"a", "b"}
    /\ received = 1
    /\ \E output \in LongOutputs :
           /\ activeSessions = Spawned.activeSessions
           /\ handlers = Spawned.handlers
           /\ calls = [Spawned.calls EXCEPT ![1].output = output]
           /\ sent = Spawned.sent

LongNext ==
    \/ \E h \in DOMAIN handlers, ok \in BOOLEAN : SendDone(h, ok)
    \/ \E h \in DOMAIN handlers : PaceDone(h)
    \/ \E h \in DOMAIN calls, code \in {"0", "1", "null"} : ProcClose(h, code)
    \/ \E h \in DOMAIN calls : Timeout(h)
    \/ \E h \in DOMAIN calls : SpawnTimeout(h)

LongSpec == LongInit /\ [][LongNext]_vars

-----------------------------------------------------------------------------
(* Vocabulary of the properties *)

\* one inbound message, delivered on its own, handled from state S up to the
\* first await
Handle(S, m) ==
    IF variant = "baileys" THEN UpsertLoop(S, <<m>>) ELSE OnMessage(S, m)

\* the messages the running variant's transport can deliver
Deliverable == {m \in Messages : variant = "wwebjs" => ~m.fromMe}

Personal(user, body) ==
    [chat |-> "personal", user |-> user, fromMe |-> FALSE, body |-> body]

IsBusy(sender) ==
    sender \in DOMAIN activeSessions /\ activeSessions[sender].busy = TRUE

Finished(h) == handlers[h].pc \in {"done", "thrown"}

\* the runClaude calls of a sender that have not settled
InFlight(sender) ==
    {h \in DOMAIN calls : handlers[h].sender = sender
                          /\ calls[h].promise.state = "pending"}

-----------------------------------------------------------------------------
(* C1 *)

\* C1 (as claimed): in every reachable state at most one runClaude call that
\* has not settled is in flight per sender identity, in both variants.
C1_OneInFlightPerSender ==
    \A sender \in Senders : Cardinality(InFlight(sender)) <= 1

-----------------------------------------------------------------------------
(* C2 *)

\* the messages C2 speaks of: from a group conversation, a status broadcast,
\* without text body, or from a sender that is not on the allow-list
Rejectable(m) ==
    \/ m.chat = "group"
    \/ m.chat = "status"
    \/ m.body = <<>>
    \/ m.user \notin AUTHORIZED_NUMBERS

-----------------------------------------------------------------------------
(* C3 *)

\* C3: a free-form message handled while its sender's busy flag is true gets
\* exactly one "still processing" reply, starts no subprocess and leaves the
\* sender's busy flag true, both when the handler runs and when its reply
\* has gone out (or has failed).
C3_BusyGetsNoticeOnly ==
    /\ \A sender \in AUTHORIZED_NUMBERS :
           IsBusy(sender) =>
               LET h == Cardinality(DOMAIN handlers) + 1
                   S2 == Handle(St, Personal(sender, TASKS_PROMPT))
               IN  /\ DOMAIN S2.handlers = (DOMAIN handlers) \cup {h}
                   /\ S2.sent[h] = <<StillProcessingText>>
                   /\ \A i \in DOMAIN handlers :
                          S2.sent[i] = sent[i] /\ S2.handlers[i] = handlers[i]
                   /\ S2.calls = calls
                   /\ S2.activeSessions = activeSessions
    /\ \A h \in DOMAIN handlers :
           handlers[h].pc = "wait" /\ handlers[h].queue = <<>> =>
               \A ok \in BOOLEAN :
                   LET S3 == AfterSend(St, h, ok)
                   IN  /\ S3.sent = sent
                       /\ S3.calls = calls
                       /\ S3.activeSessions = activeSessions
                       /\ S3.handlers[h].pc = IF ok THEN "done" ELSE "thrown"

\* a busy sender's second message has been answered with the notice, and the
\* sender is still busy
C3_Witness ==
    \E h \in DOMAIN handlers :
        /\ handlers[h].pc = "done"
        /\ sent[h] = <<StillProcessingText>>
        /\ IsBusy(handlers[h].sender)

-----------------------------------------------------------------------------
(* C4 *)

\* C4: a sender is busy exactly while one of its forwarded messages is being
\* handled: not before its first message (an absent entry reads as not
\* busy), and not after the handler has finished, whether it returned or
\* threw; the entry of a sender whose message was forwarded stays in the map.
C4_BusyExactlyWhileHandling ==
    \A sender \in Senders :
        /\ IsBusy(sender) <=>
               \E h \in DOMAIN handlers :
                   handlers[h].sender = sender /\ handlers[h].gated /\ ~Finished(h)
        /\ (\E h \in DOMAIN handlers : handlers[h].sender = sender /\ handlers[h].gated)
               => sender \in DOMAIN activeSessions

\* an invocation timed out, the error reply could not be sent either, and
\* the sender's entry reads busy = false
C4_Witness ==
    \E h \in DOMAIN calls :
        /\ handlers[h].gated
        /\ handlers[h].pc = "thrown"
        /\ calls[h].promise = Rejected(TimeoutMessage)
        /\ handlers[h].sender \in DOMAIN activeSessions
        /\ activeSessions[handlers[h].sender].busy = FALSE

-----------------------------------------------------------------------------
(* C5 *)

\* C5 (as claimed): once the timeout has elapsed on a subprocess that was
\* still running (it has been sent SIGTERM), the call is rejected with the
\* timeout error and never resolves or fails otherwise, in both variants.
C5_TimeoutAlwaysRejects ==
    \A h \in DOMAIN calls :
        calls[h].signalled =>
            calls[h].promise \in {Pending, Rejected(TimeoutMessage)}

-----------------------------------------------------------------------------
(* C6 *)

\* C6: a settled call keeps its outcome: the timer firing after a close or
\* a spawn error, and a close after the timeout, change neither the outcome
\* nor any reply, busy flag or handler.
C6_SingleOutcome ==
    [][\A h \in DOMAIN calls :
           calls[h].promise.state # "pending" =>
               /\ calls'[h].promise = calls[h].promise
               /\ (calls'[h].timer # calls[h].timer \/ calls'[h].proc # calls[h].proc)
                      => /\ sent' = sent
                         /\ activeSessions' = activeSessions
                         /\ handlers' = handlers]_vars

\* the timer has fired on a call that had resolved, and a subprocess has
\* closed after its call had timed out
C6_Witness ==
    /\ \E h \in DOMAIN calls :
           calls[h].timer = "fired" /\ calls[h].promise.state = "resolved"
    /\ \E h \in DOMAIN calls :
           calls[h].proc = "closed" /\ calls[h].promise = Rejected(TimeoutMessage)

-----------------------------------------------------------------------------
(* C7 *)

\* C7 (as claimed): a call that has failed with the timeout error has a
\* subprocess that is no longer running: it has been killed and has closed.
C7_TimeoutSettlesAfterClose ==
    \A h \in DOMAIN calls :
        calls[h].promise = Rejected(TimeoutMessage) => calls[h].proc # "running"

-----------------------------------------------------------------------------
(* C8 *)

\* C8 (as claimed): while a sender's invocation is pending, no deliverable
\* message of another authorized sender that is not busy is kept waiting.
C8_OtherSenderNotDelayed ==
    \A h \in DOMAIN calls :
        calls[h].promise.state = "pending" =>
            \A i \in 1..Len(handlers[h].queue) :
                LET m == handlers[h].queue[i]
                IN  ~ /\ m.chat = "personal"
                      /\ ~m.fromMe
                      /\ m.body = TASKS_PROMPT
                      /\ m.user \in AUTHORIZED_NUMBERS
                      /\ m.user # handlers[h].sender
                      /\ ~IsBusy(m.user)

-----------------------------------------------------------------------------
(* C9 *)

\* C9 (as claimed): in every state, handling '/tasks' (any letter case)
\* leaves the program in the same state as handling the literal
\* task-listing prompt: same gate, same call, same busy flag.
C9_TasksIsTheLiteralPrompt ==
    \A sender \in AUTHORIZED_NUMBERS :
        Handle(St, Personal(sender, <<Lit("/Tasks", 6)>>))
            = Handle(St, Personal(sender, TASKS_PROMPT))

-----------------------------------------------------------------------------
(* C10 *)

\* C10: '/help' and '/status' (after trim, in any letter case) from an
\* authorized sender send exactly one reply, start no subprocess and leave
\* the session map as it is, whoever is busy, both when the handler runs
\* and when its reply has gone out (or has failed).
C10_CommandsOnlyReply ==
    /\ \A sender \in AUTHORIZED_NUMBERS :
           \A body \in {<<Lit("/Help", 5)>>, <<Lit("/STATUS", 7), SP>>} :
               LET h == Cardinality(DOMAIN handlers) + 1
                   S2 == Handle(St, Personal(sender, body))
               IN  /\ DOMAIN S2.handlers = (DOMAIN handlers) \cup {h}
                   /\ Len(S2.sent[h]) = 1
                   /\ \A i \in DOMAIN handlers :
                          S2.sent[i] = sent[i] /\ S2.handlers[i] = handlers[i]
                   /\ S2.calls = calls
                   /\ S2.activeSessions = activeSessions
    /\ \A h \in DOMAIN handlers :
           handlers[h].pc \in {"help", "status"} /\ handlers[h].queue = <<>> =>
               \A ok \in BOOLEAN :
                   LET S3 == AfterSend(St, h, ok)
                   IN  /\ S3.sent = sent
                       /\ S3.calls = calls
                       /\ S3.activeSessions = activeSessions
                       /\ S3.handlers[h].pc = IF ok THEN "done" ELSE "thrown"

\* '/status' has been answered with the busy indicator, its handler has
\* returned, and a sender is still busy
C10_Witness ==
    /\ \E h \in DOMAIN handlers :
           handlers[h].pc = "done" /\ sent[h] = <<StatusText(TRUE)>>
    /\ IsBusy("a") \/ IsBusy("b")

-----------------------------------------------------------------------------
(* C11 *)

\* the reply a '/status' of this sender would get in the current state
StatusReplyTo(sender) ==
    Handle(St, Personal(sender, <<Lit("/STATUS", 7), SP>>)).sent[
        Cardinality(DOMAIN handlers) + 1]

\* C11 (as claimed): the reply to '/status' says busy exactly when a
\* runClaude call of that sender is in flight when the command is handled.
C11_StatusSaysInFlight ==
    \A sender \in AUTHORIZED_NUMBERS :
        StatusReplyTo(sender) = <<StatusText(InFlight(sender) # {})>>

\* C11 (amended): the reply to '/status' reports the sender's own busy flag
\* as it is when the command is handled: busy exactly while one of the
\* sender's forwarded messages is between the busy check and the finally
\* block (acknowledgment, subprocess and replies included), idle otherwise,
\* also for a sender without entry; no other sender's flag influences it.
C11_StatusSaysOwnFlag ==
    \A sender \in AUTHORIZED_NUMBERS :
        /\ StatusReplyTo(sender) = <<StatusText(IsBusy(sender))>>
        /\ IsBusy(sender) <=>
               \E h \in DOMAIN handlers :
                   /\ handlers[h].sender = sender
                   /\ handlers[h].pc \in {"ack", "claude", "part", "pace", "result", "error"}
                   /\ handlers[h].gated

\* '/status' of a sender without entry was answered idle while the other
\* sender's forwarded message was being handled
C11_Witness ==
    /\ DOMAIN handlers = {1, 2}
    /\ handlers[1].gated /\ ~Finished(1)
    /\ sent[2] = <<StatusText(FALSE)>>
    /\ handlers[2].sender # handlers[1].sender
    /\ handlers[2].sender \notin DOMAIN activeSessions

\* ---- C12: the outcome of a close before the timeout ----

\* a call whose subprocess is running and whose timeout has not fired
OpenCalls ==
    {h \in DOMAIN calls : /\ calls[h].proc = "running"
                          /\ calls[h].promise = Pending
                          /\ calls[h].timer = "armed"}

CloseCodes == {"0", "1", "null"}

\* the outcome as the claim words it: the tests are on stdout and stderr as
\* they were received
OutcomeAsClaimed(code, stdout, stderr) ==
    IF code = "0" \/ stdout # <<>>
    THEN Resolved(IF stdout = <<>> THEN NoOutput ELSE Trim(stdout))
    ELSE Rejected(IF stderr = <<>> THEN ExitMessage(code) ELSE Trim(stderr))

\* the outcome with the fallbacks decided on the trimmed texts
OutcomeTrimmed(code, stdout, stderr) ==
    IF code = "0" \/ stdout # <<>>
    THEN Resolved(IF Trim(stdout) = <<>> THEN NoOutput ELSE Trim(stdout))
    ELSE Rejected(IF Trim(stderr) = <<>> THEN ExitMessage(code) ELSE Trim(stderr))

\* C12 (as claimed): a close before the timeout resolves with the trimmed
\* stdout, or '(No output)' if stdout is empty, when the code is 0 or stdout
\* is non-empty, and otherwise rejects with the trimmed stderr, or the
\* exit-code message if stderr is empty.
C12_CloseOutcomeAsClaimed ==
    \A h \in OpenCalls : \A code \in CloseCodes :
        OnClose(calls[h], code).promise =
            OutcomeAsClaimed(code, calls[h].output, calls[h].errorOutput)

\* C12 (amended): a close of a running subprocess before the timeout resolves
\* when the code is 0 or stdout is non-empty, with the trimmed stdout, or
\* '(No output)' if nothing is left of stdout after trimming; it rejects
\* exactly when the code is non-zero and stdout is empty, with the trimmed
\* stderr, or the exit-code message if nothing is left of stderr after trimming.
C12_CloseOutcomeTrimmed ==
    \A h \in OpenCalls : \A code \in CloseCodes :
        OnClose(calls[h], code).promise =
            OutcomeTrimmed(code, calls[h].output, calls[h].errorOutput)

\* a subprocess has closed before the timeout, the call resolved with
\* '(No output)' and the handler is sending that text
C12_Witness ==
    \E h \in DOMAIN calls :
        /\ calls[h].proc = "closed"
        /\ calls[h].timer = "armed"
        /\ calls[h].promise = Resolved(NoOutput)
        /\ handlers[h].pc = "result"

\* ---- C13: invocation failures become one error reply ----

\* the runClaude calls that failed: the promise was rejected by the close
\* listener, the error listener or the timeout
FailedCalls == {h \in DOMAIN calls : calls[h].promise.state = "rejected"}

IsErrorReply(text) == text # <<>> /\ Head(text) = Head(ErrorText(<<>>))

ErrorReplies(h) == {i \in DOMAIN sent[h] : IsErrorReply(sent[h][i])}

ResolvedCalls == {h \in DOMAIN calls : calls[h].promise.state = "resolved"}

ResultText(h) == calls[h].promise.value

IsLong(text) == TextLength(text) > MAX_RESPONSE_LENGTH

\* the replies sendLongMessage has made for call h so far, in send order:
\* what the handler sent, without the acknowledgment of the gated path and
\* without the error reply that follows a failed send
RECURSIVE Keep(_)
Keep(replies) ==
    IF replies = <<>> THEN <<>>
    ELSE IF IsErrorReply(Head(replies)) THEN Keep(Tail(replies))
    ELSE <<Head(replies)>> \o Keep(Tail(replies))

Replies(h) ==
    Keep(IF handlers[h].gated THEN Tail(sent[h]) ELSE sent[h])

\* sendLongMessage has returned normally
Delivered(h) ==
    /\ h \in ResolvedCalls
    /\ handlers[h].pc = "done"
    /\ \A i \in DOMAIN sent[h] : ~IsErrorReply(sent[h][i])

Label(k) == <<Lit("*Part ", 9), Lit(ToString(k), 1), Lit(":*", 4)>>

HasLabel(reply, k) ==
    Len(reply) >= Len(Label(k)) /\ SubSeq(reply, 1, Len(Label(k))) = Label(k)

\* a part without its three label runs
PartBody(reply) == SubSeq(reply, Len(Label(1)) + 1, Len(reply))

RECURSIVE ConcatBodies(_)
ConcatBodies(replies) ==
    IF replies = <<>> THEN <<>>
    ELSE PartBody(Head(replies)) \o ConcatBodies(Tail(replies))

\* C14 (as claimed): for every text longer than the threshold, every part
\* sendLongMessage sends is at most 4000 units long.
C14_PartsWithinThreshold ==
    \A h \in ResolvedCalls :
        IsLong(ResultText(h)) =>
            \A i \in DOMAIN Replies(h) :
                TextLength(Replies(h)[i]) <= MAX_RESPONSE_LENGTH

\* C15 (as claimed): for every text longer than the threshold, the bodies of
\* the parts sent, labels stripped and concatenated in send order, are the
\* original text.
C15_BodiesReconstructText ==
    \A h \in DOMAIN calls :
        Delivered(h) /\ IsLong(ResultText(h)) =>
            ConcatBodies(Replies(h)) = ResultText(h)

\* C16: a text of length at most 4000 is sent as exactly one reply, the text
\* itself; of a longer text the k-th reply sent starts with the label
\* 'Part k:', for every reply, and a delivered long text has at least two.
C16_OneReplyOrNumberedParts ==
    \A h \in ResolvedCalls :
        IF IsLong(ResultText(h))
        THEN /\ \A k \in DOMAIN Replies(h) : HasLabel(Replies(h)[k], k)
             /\ Delivered(h) => Len(Replies(h)) >= 2
        ELSE Replies(h) = <<ResultText(h)>>

\* a text longer than the threshold was delivered in three parts
C16_Witness ==
    \E h \in DOMAIN calls :
        /\ Delivered(h)
        /\ IsLong(ResultText(h))
        /\ Len(Replies(h)) = 3
        /\ HasLabel(Replies(h)[3], 3)

\* C20 (as claimed): for every text longer than the threshold, no part has
\* an empty body.
C20_NoEmptyPart ==
    \A h \in ResolvedCalls :
        IsLong(ResultText(h)) =>
            \A i \in DOMAIN Replies(h) : PartBody(Replies(h)[i]) # <<>>

\* ---- C17: the busy flag is released ----

\* C17: if timers fire and every transport send settles, then, also when the
\* subprocess never closes, every busy flag that was set is reset: from some
\* point on (no more messages arrive) no sender is busy, so no sender stays
\* busy forever.
C17_BusyIsReleased == <>[](\A sender \in Senders : ~IsBusy(sender))

\* the subprocess of a forwarded message never closed: the timeout rejected
\* the call, the error reply was sent and the flag is down again
C17_Witness ==
    \E h \in DOMAIN calls :
        /\ handlers[h].gated
        /\ calls[h].proc = "running"
        /\ calls[h].promise = Rejected(TimeoutMessage)
        /\ handlers[h].pc = "done"
        /\ ~IsBusy(handlers[h].sender)

\* ---- C18: the order of the steps of a forwarded message ----

\* the handlers of forwarded free-form messages: they passed the busy check
Forwarded == {h \in DOMAIN handlers : handlers[h].gated}

Settled(h) == h \in DOMAIN calls /\ calls[h].promise.state # "pending"

\* where a forwarded message stands, read from what its handler has done
StepsInOrder(h) ==
    /\ sent[h] # <<>> /\ Head(sent[h]) = ProcessingText
    /\ ~Finished(h) => IsBusy(handlers[h].sender)
    /\ handlers[h].pc = "ack" => h \notin DOMAIN calls /\ Len(sent[h]) = 1
    /\ h \in DOMAIN calls /\ ~Settled(h) =>
           handlers[h].pc = "claude" /\ Len(sent[h]) = 1
    /\ Len(sent[h]) > 1 =>
           \/ Settled(h)
           \/ /\ h \notin DOMAIN calls
              /\ sent[h] = <<ProcessingText, ErrorText(SendFailure)>>

\* C18: a free-form message of an idle sender raises the busy flag in the
\* turn of the busy check; the acknowledgment is the first reply; the
\* subprocess is spawned after the acknowledgment was sent, and not at all
\* if sending it failed; result parts and error reply come after the call
\* has settled; the flag stays up until the handler has finished, and a
\* finished handler sends nothing more.
C18_StepsInOrder ==
    /\ [](\A h \in Forwarded : StepsInOrder(h))
    /\ [](\A sender \in AUTHORIZED_NUMBERS :
             ~IsBusy(sender) /\ Cardinality(DOMAIN handlers) < MaxMsgs =>
                 LET S == Handle(St, Personal(sender, TASKS_PROMPT))
                 IN  /\ S.activeSessions[sender].busy
                     /\ S.sent[Cardinality(DOMAIN handlers) + 1] = <<ProcessingText>>
                     /\ DOMAIN S.calls = DOMAIN calls)
    /\ [](\A h \in Forwarded :
             handlers[h].pc = "ack" =>
                 /\ h \in DOMAIN AfterSend(St, h, TRUE).calls
                 /\ h \notin DOMAIN AfterSend(St, h, FALSE).calls)
    /\ [][\A h \in Forwarded :
             Finished(h) => sent'[h] = sent[h] /\ handlers'[h] = handlers[h]]_vars

\* a forwarded message went through all the steps and its handler returned;
\* another one failed to send its acknowledgment and spawned nothing
C18_Witness ==
    /\ \E h \in Forwarded :
           /\ handlers[h].pc = "done"
           /\ h \in DOMAIN calls
           /\ calls[h].promise.state = "resolved"
           /\ sent[h] = <<ProcessingText, calls[h].promise.value>>
           /\ ~IsBusy(handlers[h].sender)
    /\ \E h \in Forwarded :
           /\ Finished(h)
           /\ h \notin DOMAIN calls
           /\ sent[h] = <<ProcessingText, ErrorText(SendFailure)>>

\* ---- C19: one batch is handled one message after another ----

\* a message of a batch that the loop hands to handleMessage and that is not
\* one of the two commands answered on the spot
IsForwardable(m) ==
    /\ ~SkipNonPersonal(m)
    /\ Trim(m.body) # <<>>
    /\ StripUserSuffix(Jid(m)) \in AUTHORIZED_NUMBERS
    /\ ToLowerCase(Trim(m.body)) \notin {HELP_CMD, STATUS_CMD}

\* handler h of a forwarded message is at its last reply and the next message
\* of its batch is a forwardable one of the same sender
NextOfBatchWaits(h) ==
    /\ handlers[h].gated
    /\ handlers[h].pc \in {"result", "error"}
    /\ handlers[h].queue # <<>>
    /\ IsForwardable(Head(handlers[h].queue))
    /\ StripUserSuffix(Jid(Head(handlers[h].queue))) = handlers[h].sender

NewHandlers == (DOMAIN handlers') \ (DOMAIN handlers)

====
